---- MODULE Spec2Model ----
(***************************************************************************)
(* KeyFinder::AudioData (src/audiodata.cpp): an interleaved sample buffer  *)
(* with a channel count, a frame rate and two stream iterators.            *)
(*                                                                         *)
(* Spec     : the member functions that configure, fill, merge, trim and   *)
(*            transform the buffer, each call one atomic action.           *)
(* IterSpec : the stream iterators, with the calls that fill, grow and     *)
(*            trim storage, each call one atomic action.                   *)
(* LoopSpec : the loops of reduceToMono, downsample and                    *)
(*            sliceSamplesFromBack run one pass per step, so that          *)
(*            termination and the positions they dereference are visible.  *)
(*                                                                         *)
(* A float is modelled as an exact fraction <<num, den>> in lowest terms;  *)
(* den = 0 stands for the non-finite floats (<<0,0>> NaN, <<1,0>> +Inf).   *)
(* Rounding and overflow of float arithmetic are not modelled.             *)
(***************************************************************************)
EXTENDS Integers, Sequences, FiniteSets, TLC

VARIABLES
  this,           \* the receiver: [samples, channels, frameRate]
  readIterator,   \* AudioData::readIterator as an index, -1 = singular/invalidated
  writeIterator,  \* AudioData::writeIterator as an index, -1 = singular/invalidated
  last,           \* history: the last call, its argument and the exception it threw
  two,            \* history: a call and the call that undoes it (see Track)
  pc,             \* "idle" between calls; a loop label inside a call (LoopSpec)
  loc             \* locals of the running call (LoopSpec)

vars == <<this, readIterator, writeIterator, last, two, pc, loc>>

----------------------------------------------------------------------------
\* Bounds of the model

MaxLen == 3        \* longest sample sequence explored
MaxChannels == 2   \* largest channel count passed to setChannels
MaxFrameRate == 2  \* largest frame rate passed to setFrameRate
MaxFactor == 2     \* largest downsample factor
MaxDen == 2        \* largest denominator of a stored fraction

----------------------------------------------------------------------------
\* Floats

Zero == <<0, 1>>
Two == <<2, 1>>
NaN == <<0, 0>>
PosInf == <<1, 0>>

RECURSIVE GCD(_, _)
GCD(a, b) == IF b = 0 THEN a ELSE GCD(b, a % b)

Norm(n, d) == LET g == GCD(n, d) IN IF g = 0 THEN <<0, 0>> ELSE <<n \div g, d \div g>>

\* boost::math::isfinite
isfinite(v) == v[2] # 0

\* float + float
FAdd(a, b) ==
  IF isfinite(a) /\ isfinite(b) THEN Norm(a[1] * b[2] + b[1] * a[2], a[2] * b[2])
  ELSE IF a = NaN \/ b = NaN THEN NaN
  ELSE PosInf

\* float / (float) k, k an unsigned integer
FDiv(a, k) ==
  IF ~isfinite(a) THEN a
  ELSE IF k = 0 THEN (IF a[1] = 0 THEN NaN ELSE PosInf)
  ELSE Norm(a[1], a[2] * k)

Min(a, b) == IF a < b THEN a ELSE b

\* ceil((float) n / (float) k) for k > 0
CeilDiv(n, k) == (n + k - 1) \div k

----------------------------------------------------------------------------
\* The buffer and the outcome of a call

Buffer(s, c, r) == [samples |-> s, channels |-> c, frameRate |-> r]

\* AudioData::AudioData()
NewAudioData == Buffer(<<>>, 0, 0)

NoErr == ""

\* a call that returned: the receiver after it, the returned buffer, the returned value
Return(b) == [err |-> NoErr, buf |-> b, ret |-> NewAudioData, val |-> Zero]
ReturnVal(b, v) == [err |-> NoErr, buf |-> b, ret |-> NewAudioData, val |-> v]
ReturnBuf(b, t) == [err |-> NoErr, buf |-> b, ret |-> t, val |-> Zero]
\* a call that threw Exception(msg): the receiver as it is at the throw
Throw(b, msg) == [err |-> msg, buf |-> b, ret |-> NewAudioData, val |-> Zero]

getSampleCount(b) == Len(b.samples)

\* std::deque::resize(n, 0.0)
Resize(s, n) == IF n <= Len(s) THEN SubSeq(s, 1, n)
                ELSE s \o [i \in 1..(n - Len(s)) |-> Zero]

setChannels(b, newChannels) ==
  IF newChannels < 1 THEN Throw(b, "New channel count must be > 0")
  ELSE Return([b EXCEPT !.channels = newChannels])

setFrameRate_unchecked(b, newFrameRate) == Return([b EXCEPT !.frameRate = newFrameRate])

setFrameRate(b, newFrameRate) ==
  IF newFrameRate < 1 THEN Throw(b, "New frame rate must be > 0")
  ELSE Return([b EXCEPT !.frameRate = newFrameRate])

\* lines 47-50 and 59-62: an unconfigured receiver adopts the argument's configuration
Adopt(b, that) ==
  IF b.channels = 0 /\ b.frameRate = 0
  THEN [b EXCEPT !.channels = that.channels, !.frameRate = that.frameRate]
  ELSE b

append(b, that) ==
  LET b1 == Adopt(b, that) IN
  IF that.channels # b1.channels
  THEN Throw(b1, "Cannot append audio data with a different number of channels")
  ELSE IF that.frameRate # b1.frameRate
  THEN Throw(b1, "Cannot append audio data with a different frame rate")
  ELSE Return([b1 EXCEPT !.samples = b1.samples \o that.samples])

prepend_at_end(b, that) ==
  LET b1 == Adopt(b, that) IN
  IF that.channels # b1.channels
  THEN Throw(b1, "Cannot prepend audio data with a different number of channels")
  ELSE IF that.frameRate # b1.frameRate
  THEN Throw(b1, "Cannot prepend audio data with a different frame rate")
  ELSE Return([b1 EXCEPT !.samples = b1.samples \o that.samples])

prepend(b, that) ==
  LET b1 == Adopt(b, that) IN
  IF that.channels # b1.channels
  THEN Throw(b1, "Cannot prepend audio data with a different number of channels")
  ELSE IF that.frameRate # b1.frameRate
  THEN Throw(b1, "Cannot prepend audio data with a different frame rate")
  ELSE Return([b1 EXCEPT !.samples = that.samples \o b1.samples])

getSample(b, index) ==
  IF index >= getSampleCount(b) THEN Throw(b, "Cannot get out-of-bounds sample")
  ELSE ReturnVal(b, b.samples[index + 1])

\* getFrameCount throws when channels < 1, else returns sampleCount / channels
getFrameCountThrows(b) == b.channels < 1
getFrameCount(b) == getSampleCount(b) \div b.channels

getSampleByFrame(b, frame, channel) ==
  IF getFrameCountThrows(b) THEN Throw(b, "Channels must be > 0")
  ELSE IF frame >= getFrameCount(b) THEN Throw(b, "Cannot get out-of-bounds frame")
  ELSE IF channel >= b.channels THEN Throw(b, "Cannot get out-of-bounds channel")
  ELSE getSample(b, frame * b.channels + channel)

setSample(b, index, value) ==
  IF index >= getSampleCount(b) THEN Throw(b, "Cannot set out-of-bounds sample")
  ELSE IF ~isfinite(value) THEN Throw(b, "Cannot set sample to NaN")
  ELSE Return([b EXCEPT !.samples[index + 1] = value])

setSampleByFrame(b, frame, channel, value) ==
  IF getFrameCountThrows(b) THEN Throw(b, "Channels must be > 0")
  ELSE IF frame >= getFrameCount(b) THEN Throw(b, "Cannot set out-of-bounds frame")
  ELSE IF channel >= b.channels THEN Throw(b, "Cannot set out-of-bounds channel")
  ELSE setSample(b, frame * b.channels + channel, value)

addToSampleCount(b, newSamples) ==
  Return([b EXCEPT !.samples = Resize(b.samples, getSampleCount(b) + newSamples)])

addToFrameCount(b, newFrames) ==
  IF b.channels < 1 THEN Throw(b, "Channels must be > 0")
  ELSE addToSampleCount(b, newFrames * b.channels)

----------------------------------------------------------------------------
\* reduceToMono, lines 141-156

\* lines 147-150: `k` more passes of the for loop from `readAt`; a read at or past
\* samples.end() is undefined behaviour and yields the arbitrary float `g`
RECURSIVE MonoSum(_, _, _, _, _)
MonoSum(s, readAt, k, sum, g) ==
  IF k = 0 THEN sum
  ELSE MonoSum(s, readAt + 1, k - 1,
               FAdd(sum, IF readAt < Len(s) THEN s[readAt + 1] ELSE g), g)

\* lines 145-153: the while loop, writing in place
RECURSIVE MonoLoop(_, _, _, _, _)
MonoLoop(s, readAt, writeAt, c, g) ==
  IF readAt < Len(s)
  THEN MonoLoop([s EXCEPT ![writeAt + 1] = FDiv(MonoSum(s, readAt, c, Zero, g), c)],
                readAt + c, writeAt + 1, c, g)
  ELSE s

\* the for loop of some frame reads at or past samples.end()
MonoReadsPastEnd(b) ==
  /\ b.channels >= 2
  /\ \E r \in 0..(getSampleCount(b) - 1) :
        r % b.channels = 0 /\ r + b.channels > getSampleCount(b)

reduceToMono(b, g) ==
  IF b.channels < 2 THEN Return(b)
  ELSE LET s1 == MonoLoop(b.samples, 0, 0, b.channels, g) IN
       Return(Buffer(Resize(s1, getSampleCount(b) \div b.channels), 1, b.frameRate))

----------------------------------------------------------------------------
\* downsample, lines 159-183

\* lines 170-176: passes k .. factor-1 of the for loop; returns <<mean, readAt>>
RECURSIVE DownBlock(_, _, _, _, _)
DownBlock(s, readAt, factor, k, mean) ==
  IF k >= factor THEN <<mean, readAt>>
  ELSE IF readAt < Len(s)
  THEN DownBlock(s, readAt + 1, factor, k + 1, FDiv(FAdd(mean, s[readAt + 1]), factor))
  ELSE DownBlock(s, readAt, factor, k + 1, FDiv(mean, factor))

\* lines 164-180: the while loop, writing in place (factor >= 1)
RECURSIVE DownLoop(_, _, _, _, _)
DownLoop(s, readAt, writeAt, factor, shortcut) ==
  IF readAt < Len(s)
  THEN IF shortcut
       THEN DownLoop([s EXCEPT ![writeAt + 1] = s[readAt + 1]],
                     readAt + factor, writeAt + 1, factor, shortcut)
       ELSE LET blk == DownBlock(s, readAt, factor, 0, Zero) IN
            DownLoop([s EXCEPT ![writeAt + 1] = blk[1]],
                     blk[2], writeAt + 1, factor, shortcut)
  ELSE s

\* factor = 0 on a buffer that passes the mono check never reaches line 181 in a
\* defined way; the actions treat that case, this operator the others
downsample_no_mono_check(b, factor, shortcut) ==
  IF factor = 1 THEN Return(b)
  ELSE LET s1 == DownLoop(b.samples, 0, 0, factor, shortcut)
           b1 == [b EXCEPT !.samples = Resize(s1, CeilDiv(getSampleCount(b), factor))]
       IN setFrameRate(b1, b1.frameRate \div factor)

downsample(b, factor, shortcut) ==
  IF factor = 1 THEN Return(b)
  ELSE IF b.channels > 1 THEN Throw(b, "Apply to monophonic only")
  ELSE LET s1 == DownLoop(b.samples, 0, 0, factor, shortcut)
           b1 == [b EXCEPT !.samples = Resize(s1, CeilDiv(getSampleCount(b), factor))]
       IN setFrameRate(b1, b1.frameRate \div factor)

----------------------------------------------------------------------------
\* discardFramesFromFront, lines 185-195

discardFramesFromFront(b, discardFrameCount) ==
  IF getFrameCountThrows(b) THEN Throw(b, "Channels must be > 0")
  ELSE IF discardFrameCount > getFrameCount(b) THEN Throw(b, "Cannot discard frames")
  ELSE LET discardSampleCount == discardFrameCount * b.channels IN
       Return([b EXCEPT !.samples =
                 SubSeq(b.samples, discardSampleCount + 1, getSampleCount(b))])

----------------------------------------------------------------------------
\* sliceSamplesFromBack, lines 197-217

\* lines 210-214: the copy loop
RECURSIVE SliceLoop(_, _, _, _)
SliceLoop(s, t, readAt, writeAt) ==
  IF readAt < Len(s)
  THEN SliceLoop(s, [t EXCEPT ![writeAt + 1] = s[readAt + 1]], readAt + 1, writeAt + 1)
  ELSE t

sliceSamplesFromBack(b, sliceSampleCount) ==
  IF sliceSampleCount > getSampleCount(b) THEN Throw(b, "Cannot slice samples")
  ELSE LET that0 == [NewAudioData EXCEPT !.channels = b.channels]
           r1 == setFrameRate(that0, b.frameRate)
       IN IF r1.err # NoErr THEN Throw(b, r1.err)
          ELSE LET that1 == addToSampleCount(r1.buf, sliceSampleCount).buf
                   t == SliceLoop(b.samples, that1.samples,
                                  getSampleCount(b) - sliceSampleCount, 0)
               IN ReturnBuf([b EXCEPT !.samples =
                               Resize(b.samples, getSampleCount(b) - sliceSampleCount)],
                            [that1 EXCEPT !.samples = t])

----------------------------------------------------------------------------
\* Stream iterators, lines 219-246, and what std::deque does to iterators

Singular == -1

\* samples.insert / a growing resize of k elements invalidates every iterator
AfterInsert(it, k) == IF k = 0 THEN it ELSE Singular

\* a shrinking resize invalidates the iterators at the erased elements and end()
AfterShrink(it, oldLen, newLen) ==
  IF newLen = oldLen THEN it ELSE IF it >= newLen THEN Singular ELSE it

\* erase(begin, begin + k) invalidates the iterators at the erased elements, and
\* end() when the last element goes too
AfterEraseFront(it, k, oldLen) ==
  IF k = 0 THEN it
  ELSE IF it = Singular \/ it < k \/ k = oldLen THEN Singular
  ELSE it - k

readIteratorWithinUpperBound(b, it) == it < getSampleCount(b)
writeIteratorWithinUpperBound(b, it) == it < getSampleCount(b)

getSampleAtReadIterator(b, it) == ReturnVal(b, b.samples[it + 1])

setSampleAtWriteIterator(b, it, value) == Return([b EXCEPT !.samples[it + 1] = value])

\* Arguments the callers pass

ChannelArgs == 0..MaxChannels
FrameRateArgs == 0..MaxFrameRate
CountArgs == 0..MaxLen
IndexArgs == 0..MaxLen
FactorArgs == 0..MaxFactor
\* float arguments: a finite value, NaN, an infinity
ValueArgs == {Two, NaN, PosInf}
\* what a read past the end of storage may find
Garbage == {Zero, NaN}

\* the buffers handed to append and prepend: built by setChannels, setFrameRate,
\* addToSampleCount and setSample, so every sample in them is finite
ThatBuffers ==
  {Buffer(s, c, r) : s \in {<<>>, <<Two>>, <<Two, Zero>>},
                     c \in ChannelArgs, r \in FrameRateArgs}

\* floats the model stores: denominators up to MaxDen, or non-finite
Storable(b) == \A i \in 1..Len(b.samples) : b.samples[i][2] <= MaxDen

----------------------------------------------------------------------------
\* History

NoCall == [op |-> "none", n |-> 0, shortcut |-> FALSE, err |-> NoErr]

Called(op, n, shortcut, res) == [op |-> op, n |-> n, shortcut |-> shortcut, err |-> res.err]

NoTwo ==
  [first |-> "none", orig |-> NewAudioData, that |-> NewAudioData,
   done |-> FALSE, err |-> NoErr]

\* `two` follows the pairs of calls that are meant to undo one another:
\*   append(that) or prepend(that), then discardFramesFromFront(frame count of that);
\*   sliceSamplesFromBack(n), then append of the buffer it returned.
\* orig is the receiver before the first call and that the other buffer; while a
\* pair is open the only call is its second call, which sets done.
Track(op, that, res) ==
  IF two.first # "none"
  THEN [two EXCEPT !.done = TRUE, !.err = res.err]
  ELSE IF /\ op \in {"append", "prepend"} /\ res.err = NoErr
          /\ that.channels = this.channels /\ that.frameRate = this.frameRate
          /\ ~getFrameCountThrows(that)
  THEN [first |-> op, orig |-> this, that |-> that, done |-> FALSE, err |-> NoErr]
  ELSE IF op = "sliceSamplesFromBack" /\ res.err = NoErr
  THEN [first |-> op, orig |-> this, that |-> res.ret, done |-> FALSE, err |-> NoErr]
  ELSE NoTwo

\* the call returns or throws: the receiver after it and the history
Finish(op, n, shortcut, that, res) ==
  /\ this' = res.buf
  /\ last' = Called(op, n, shortcut, res)
  /\ two' = Track(op, that, res)
  /\ pc' = "returned"
  /\ loc' = loc

\* the caller has seen the outcome of the call and goes on: to any call, or to the
\* second call of the pair the call has opened
Resume ==
  /\ pc = "returned"
  /\ pc' = "idle"
  /\ last' = NoCall
  /\ \/ two' = NoTwo
     \/ two.first # "none" /\ ~two.done /\ two' = two
  /\ UNCHANGED <<this, readIterator, writeIterator, loc>>

\* the caller is free to make any call
Idle == pc = "idle" /\ two = NoTwo

Iterators(r, w) == readIterator' = r /\ writeIterator' = w
IteratorsKept == UNCHANGED <<readIterator, writeIterator>>

----------------------------------------------------------------------------
\* Init: the state after AudioData::AudioData(), line 26

NoLocals ==
  [readAt |-> 0, writeAt |-> 0, c |-> 0, acc |-> Zero, factor |-> 0,
   shortcut |-> FALSE, that |-> NewAudioData]

Init ==
  /\ this = NewAudioData
  /\ readIterator = Singular
  /\ writeIterator = Singular
  /\ last = NoCall
  /\ two = NoTwo
  /\ Idle
  /\ loc = NoLocals

----------------------------------------------------------------------------
\* Spec: one action per public member function

SetChannels ==
  /\ Idle
  /\ \E n \in ChannelArgs :
       Finish("setChannels", n, FALSE, NewAudioData, setChannels(this, n))
  /\ IteratorsKept

SetFrameRate ==
  /\ Idle
  /\ \E n \in FrameRateArgs :
       Finish("setFrameRate", n, FALSE, NewAudioData, setFrameRate(this, n))
  /\ IteratorsKept

AppendCall ==
  /\ Idle
  /\ \E that \in ThatBuffers :
       LET res == append(this, that)
           k == IF res.err = NoErr THEN Len(that.samples) ELSE 0 IN
       /\ Len(res.buf.samples) <= MaxLen
       /\ Finish("append", 0, FALSE, that, res)
       /\ Iterators(AfterInsert(readIterator, k), AfterInsert(writeIterator, k))

PrependCall ==
  /\ Idle
  /\ \E that \in ThatBuffers :
       LET res == prepend(this, that)
           k == IF res.err = NoErr THEN Len(that.samples) ELSE 0 IN
       /\ Len(res.buf.samples) <= MaxLen
       /\ Finish("prepend", 0, FALSE, that, res)
       /\ Iterators(AfterInsert(readIterator, k), AfterInsert(writeIterator, k))

GetSample ==
  /\ Idle
  /\ \E i \in IndexArgs :
       Finish("getSample", 0, FALSE, NewAudioData, getSample(this, i))
  /\ IteratorsKept

GetSampleByFrame ==
  /\ Idle
  /\ \E f \in IndexArgs, ch \in ChannelArgs :
       Finish("getSampleByFrame", 0, FALSE, NewAudioData, getSampleByFrame(this, f, ch))
  /\ IteratorsKept

SetSample ==
  /\ Idle
  /\ \E i \in IndexArgs, v \in ValueArgs :
       Finish("setSample", 0, FALSE, NewAudioData, setSample(this, i, v))
  /\ IteratorsKept

SetSampleByFrame ==
  /\ Idle
  /\ \E f \in IndexArgs, ch \in ChannelArgs, v \in {Two, NaN} :
       Finish("setSampleByFrame", 0, FALSE, NewAudioData,
              setSampleByFrame(this, f, ch, v))
  /\ IteratorsKept

AddToSampleCount ==
  /\ Idle
  /\ \E n \in CountArgs :
       /\ getSampleCount(this) + n <= MaxLen
       /\ Finish("addToSampleCount", 0, FALSE, NewAudioData, addToSampleCount(this, n))
       /\ Iterators(AfterInsert(readIterator, n), AfterInsert(writeIterator, n))

AddToFrameCount ==
  /\ Idle
  /\ \E n \in CountArgs :
       LET res == addToFrameCount(this, n)
           k == Len(res.buf.samples) - getSampleCount(this) IN
       /\ Len(res.buf.samples) <= MaxLen
       /\ Finish("addToFrameCount", 0, FALSE, NewAudioData, res)
       /\ Iterators(AfterInsert(readIterator, k), AfterInsert(writeIterator, k))

GetFrameCount ==
  /\ Idle
  /\ Finish("getFrameCount", 0, FALSE, NewAudioData,
            IF getFrameCountThrows(this) THEN Throw(this, "Channels must be > 0")
            ELSE ReturnVal(this, <<getFrameCount(this), 1>>))
  /\ IteratorsKept

\* a call that never hands control back: it crashed, or it runs for ever
Abort(op, n, shortcut, how) ==
  /\ this' = this
  /\ last' = Called(op, n, shortcut, Return(this))
  /\ two' = NoTwo
  /\ pc' = how
  /\ loc' = loc
  /\ IteratorsKept

ReduceToMono ==
  /\ Idle
  /\ \/ \E g \in Garbage :
          LET res == reduceToMono(this, g) IN
          /\ Storable(res.buf)
          /\ Finish("reduceToMono", 0, FALSE, NewAudioData, res)
          /\ Iterators(
               AfterShrink(readIterator, getSampleCount(this), Len(res.buf.samples)),
               AfterShrink(writeIterator, getSampleCount(this), Len(res.buf.samples)))
     \/ \* the read past the end of storage faults
        /\ MonoReadsPastEnd(this)
        /\ Abort("reduceToMono", 0, FALSE, "crashed")

Downsample ==
  /\ Idle
  /\ \E factor \in FactorArgs, shortcut \in BOOLEAN :
       \/ /\ factor # 0
          /\ LET res == downsample(this, factor, shortcut) IN
             /\ Storable(res.buf)
             /\ Finish("downsample", factor, shortcut, NewAudioData, res)
             /\ Iterators(
                  AfterShrink(readIterator, getSampleCount(this), Len(res.buf.samples)),
                  AfterShrink(writeIterator, getSampleCount(this), Len(res.buf.samples)))
       \/ \* factor 0, more than one channel: line 161 throws before factor is used
          /\ factor = 0 /\ this.channels > 1
          /\ Finish("downsample", factor, shortcut, NewAudioData,
                    Throw(this, "Apply to monophonic only"))
          /\ IteratorsKept
       \/ \* factor 0, samples to read: readAt never moves (lines 168, 170), while
          \* writeAt runs off the end of storage
          /\ factor = 0 /\ this.channels <= 1 /\ getSampleCount(this) > 0
          /\ \E how \in {"hung", "crashed"} : Abort("downsample", factor, shortcut, how)
       \/ \* factor 0, nothing to read: line 181 converts 0.0/0.0 to an unsigned
          \* and line 182 divides by zero
          /\ factor = 0 /\ this.channels <= 1 /\ getSampleCount(this) = 0
          /\ Abort("downsample", factor, shortcut, "crashed")

DiscardFramesFromFront ==
  /\ Idle
  /\ \E n \in CountArgs :
       LET res == discardFramesFromFront(this, n)
           k == getSampleCount(this) - Len(res.buf.samples) IN
       /\ Finish("discardFramesFromFront", n, FALSE, NewAudioData, res)
       /\ Iterators(AfterEraseFront(readIterator, k, getSampleCount(this)),
                    AfterEraseFront(writeIterator, k, getSampleCount(this)))

SliceSamplesFromBack ==
  /\ Idle
  /\ \E n \in 0..(MaxLen + 1) :
       LET res == sliceSamplesFromBack(this, n) IN
       /\ Finish("sliceSamplesFromBack", n, FALSE, NewAudioData, res)
       /\ Iterators(
            AfterShrink(readIterator, getSampleCount(this), Len(res.buf.samples)),
            AfterShrink(writeIterator, getSampleCount(this), Len(res.buf.samples)))

\* discardFramesFromFront called with the frame count of the buffer just appended
\* or prepended
DiscardAdded ==
  /\ pc = "idle"
  /\ two.first \in {"append", "prepend"}
  /\ LET n == getFrameCount(two.that)
         res == discardFramesFromFront(this, n)
         k == getSampleCount(this) - Len(res.buf.samples) IN
     /\ Finish("discardFramesFromFront", n, FALSE, NewAudioData, res)
     /\ Iterators(AfterEraseFront(readIterator, k, getSampleCount(this)),
                  AfterEraseFront(writeIterator, k, getSampleCount(this)))

\* append called with the buffer sliceSamplesFromBack has just returned
AppendSliced ==
  /\ pc = "idle"
  /\ two.first = "sliceSamplesFromBack"
  /\ LET res == append(this, two.that)
         k == IF res.err = NoErr THEN Len(two.that.samples) ELSE 0 IN
     /\ Finish("append", 0, FALSE, two.that, res)
     /\ Iterators(AfterInsert(readIterator, k), AfterInsert(writeIterator, k))

ResetIterators ==
  /\ Idle
  /\ Finish("resetIterators", 0, FALSE, NewAudioData, Return(this))
  /\ Iterators(0, 0)

\* The iterator calls check nothing: the caller is to test the iterator against the
\* upper bound first, and the actions below are the calls of such a caller.
AdvanceReadIterator ==
  /\ Idle
  /\ readIterator # Singular
  /\ \E by \in 1..MaxChannels :
       /\ readIterator + by <= getSampleCount(this)
       /\ Finish("advanceReadIterator", 0, FALSE, NewAudioData, Return(this))
       /\ Iterators(readIterator + by, writeIterator)

AdvanceWriteIterator ==
  /\ Idle
  /\ writeIterator # Singular
  /\ \E by \in 1..MaxChannels :
       /\ writeIterator + by <= getSampleCount(this)
       /\ Finish("advanceWriteIterator", 0, FALSE, NewAudioData, Return(this))
       /\ Iterators(readIterator, writeIterator + by)

GetSampleAtReadIterator ==
  /\ Idle
  /\ readIterator # Singular
  /\ readIteratorWithinUpperBound(this, readIterator)
  /\ Finish("getSampleAtReadIterator", 0, FALSE, NewAudioData,
            getSampleAtReadIterator(this, readIterator))
  /\ IteratorsKept

SetSampleAtWriteIterator ==
  /\ Idle
  /\ writeIterator # Singular
  /\ writeIteratorWithinUpperBound(this, writeIterator)
  /\ \E v \in {Two, NaN} :
       Finish("setSampleAtWriteIterator", 0, FALSE, NewAudioData,
              setSampleAtWriteIterator(this, writeIterator, v))
  /\ IteratorsKept

Next ==
  \/ SetChannels
  \/ SetFrameRate
  \/ AppendCall
  \/ PrependCall
  \/ GetSample
  \/ GetSampleByFrame
  \/ SetSample
  \/ SetSampleByFrame
  \/ AddToSampleCount
  \/ AddToFrameCount
  \/ GetFrameCount
  \/ ReduceToMono
  \/ Downsample
  \/ DiscardFramesFromFront
  \/ SliceSamplesFromBack
  \/ DiscardAdded
  \/ AppendSliced
  \/ Resume

Spec == Init /\ [][Next]_vars

\* IterSpec: the stream iterators, with the calls that fill, grow and trim storage
IterNext ==
  \/ SetChannels
  \/ AddToSampleCount
  \/ SetSample
  \/ DiscardFramesFromFront
  \/ SliceSamplesFromBack
  \/ ResetIterators
  \/ AdvanceReadIterator
  \/ AdvanceWriteIterator
  \/ GetSampleAtReadIterator
  \/ SetSampleAtWriteIterator
  \/ Resume

IterSpec == Init /\ [][IterNext]_vars

----------------------------------------------------------------------------
\* LoopSpec: reduceToMono, downsample and sliceSamplesFromBack one loop pass per
\* step. loc.readAt and loc.writeAt are the iterators readAt and writeAt as indexes.

\* a position past the end of storage is kept as PastEnd at most
PastEnd == MaxLen + MaxFactor + 1
Advance(p, by) == Min(p + by, PastEnd)

\* the running call returns or throws; what it has resized away is lost to the
\* stream iterators
Leave(op, n, shortcut, res) ==
  /\ this' = res.buf
  /\ last' = Called(op, n, shortcut, res)
  /\ pc' = "returned"
  /\ loc' = NoLocals
  /\ two' = two
  /\ Iterators(AfterShrink(readIterator, getSampleCount(this), Len(res.buf.samples)),
               AfterShrink(writeIterator, getSampleCount(this), Len(res.buf.samples)))

\* the running call goes on to label `to` with locals `l`
Goto(to, l) ==
  /\ pc' = to
  /\ loc' = l
  /\ UNCHANGED <<this, last, two, readIterator, writeIterator>>

\* a dereference outside storage that faults
Fault ==
  /\ pc' = "crashed"
  /\ UNCHANGED <<this, last, two, loc, readIterator, writeIterator>>

\* lines 142-144
MonoBegin ==
  /\ Idle
  /\ \A g \in Garbage : Storable(reduceToMono(this, g).buf)
  /\ IF this.channels < 2
     THEN Leave("reduceToMono", 0, FALSE, Return(this))
     ELSE Goto("mono_while", [NoLocals EXCEPT !.readAt = 0, !.writeAt = 0])

\* line 145, and line 146 when the loop goes on
MonoWhile ==
  /\ pc = "mono_while"
  /\ IF loc.readAt < getSampleCount(this)
     THEN Goto("mono_for", [loc EXCEPT !.acc = Zero, !.c = 0])
     ELSE Goto("mono_resize", loc)

\* lines 147-150: one pass of the for loop; lines 151-152 when it is over
MonoFor ==
  /\ pc = "mono_for"
  /\ IF loc.c < this.channels
     THEN IF loc.readAt < getSampleCount(this)
          THEN Goto("mono_for",
                    [loc EXCEPT !.acc = FAdd(loc.acc, this.samples[loc.readAt + 1]),
                                !.readAt = Advance(loc.readAt, 1), !.c = loc.c + 1])
          ELSE \* *readAt at or past samples.end(): undefined behaviour
               \/ Fault
               \/ \E g \in Garbage :
                    Goto("mono_for",
                         [loc EXCEPT !.acc = FAdd(loc.acc, g),
                                     !.readAt = Advance(loc.readAt, 1), !.c = loc.c + 1])
     ELSE IF loc.writeAt < getSampleCount(this)
          THEN /\ this' = [this EXCEPT !.samples[loc.writeAt + 1] =
                                          FDiv(loc.acc, this.channels)]
               /\ loc' = [loc EXCEPT !.writeAt = Advance(loc.writeAt, 1)]
               /\ pc' = "mono_while"
               /\ UNCHANGED <<last, two, readIterator, writeIterator>>
          ELSE \/ Fault
               \/ Goto("mono_while", [loc EXCEPT !.writeAt = Advance(loc.writeAt, 1)])

\* lines 154-155
MonoResize ==
  /\ pc = "mono_resize"
  /\ Leave("reduceToMono", 0, FALSE,
           Return(Buffer(Resize(this.samples, getSampleCount(this) \div this.channels),
                         1, this.frameRate)))

\* lines 160-163
DownBegin ==
  /\ Idle
  /\ \E factor \in FactorArgs, shortcut \in BOOLEAN :
       /\ factor # 0 => Storable(downsample(this, factor, shortcut).buf)
       /\ IF factor = 1
          THEN Leave("downsample", factor, shortcut, Return(this))
          ELSE IF this.channels > 1
          THEN Leave("downsample", factor, shortcut,
                     Throw(this, "Apply to monophonic only"))
          ELSE Goto("down_while",
                    [NoLocals EXCEPT !.readAt = 0, !.writeAt = 0,
                                     !.factor = factor, !.shortcut = shortcut])

\* line 164, and lines 165-166 when the loop goes on
DownWhile ==
  /\ pc = "down_while"
  /\ IF loc.readAt < getSampleCount(this)
     THEN Goto(IF loc.shortcut THEN "down_short" ELSE "down_for",
               [loc EXCEPT !.acc = Zero, !.c = 0])
     ELSE Goto("down_resize", loc)

\* *writeAt = mean; std::advance(writeAt, 1), lines 178-179
DownWrite(mean, readAt) ==
  IF loc.writeAt < getSampleCount(this)
  THEN /\ this' = [this EXCEPT !.samples[loc.writeAt + 1] = mean]
       /\ loc' = [loc EXCEPT !.readAt = readAt, !.writeAt = Advance(loc.writeAt, 1)]
       /\ pc' = "down_while"
       /\ UNCHANGED <<last, two, readIterator, writeIterator>>
  ELSE \* *writeAt at or past samples.end(): undefined behaviour
       \/ Fault
       \/ Goto("down_while",
               [loc EXCEPT !.readAt = readAt, !.writeAt = Advance(loc.writeAt, 1)])

\* lines 167-168, then 178-179
DownShort ==
  /\ pc = "down_short"
  /\ DownWrite(this.samples[loc.readAt + 1], Advance(loc.readAt, loc.factor))

\* lines 170-176: one pass of the for loop; lines 178-179 when it is over
DownFor ==
  /\ pc = "down_for"
  /\ IF loc.c < loc.factor
     THEN IF loc.readAt < getSampleCount(this)
          THEN Goto("down_for",
                    [loc EXCEPT
                       !.acc = FDiv(FAdd(loc.acc, this.samples[loc.readAt + 1]),
                                    loc.factor),
                       !.readAt = Advance(loc.readAt, 1), !.c = loc.c + 1])
          ELSE Goto("down_for",
                    [loc EXCEPT !.acc = FDiv(loc.acc, loc.factor), !.c = loc.c + 1])
     ELSE DownWrite(loc.acc, loc.readAt)

\* lines 181-182
DownResize ==
  /\ pc = "down_resize"
  /\ IF loc.factor = 0
     THEN \* 0.0 / 0.0 converted to an unsigned, then a division by zero
          Fault
     ELSE LET b1 == [this EXCEPT !.samples =
                       Resize(this.samples, CeilDiv(getSampleCount(this), loc.factor))]
          IN Leave("downsample", loc.factor, loc.shortcut,
                   setFrameRate(b1, b1.frameRate \div loc.factor))

\* lines 198-209
SliceBegin ==
  /\ Idle
  /\ \E n \in 0..(MaxLen + 1) :
       IF n > getSampleCount(this)
       THEN Leave("sliceSamplesFromBack", n, FALSE, Throw(this, "Cannot slice samples"))
       ELSE LET that0 == [NewAudioData EXCEPT !.channels = this.channels]
                r1 == setFrameRate(that0, this.frameRate)
            IN IF r1.err # NoErr
               THEN Leave("sliceSamplesFromBack", n, FALSE, Throw(this, r1.err))
               ELSE Goto("slice_while",
                         [NoLocals EXCEPT
                            !.that = addToSampleCount(r1.buf, n).buf,
                            !.readAt = getSampleCount(this) - n, !.writeAt = 0,
                            !.c = n])

\* lines 210-214: one pass of the copy loop; lines 215-216 when it is over
SliceWhile ==
  /\ pc = "slice_while"
  /\ IF loc.readAt < getSampleCount(this)
     THEN IF loc.writeAt < getSampleCount(loc.that)
          THEN Goto("slice_while",
                    [loc EXCEPT !.that.samples[loc.writeAt + 1] =
                                   this.samples[loc.readAt + 1],
                                !.readAt = Advance(loc.readAt, 1),
                                !.writeAt = Advance(loc.writeAt, 1)])
          ELSE Fault
     ELSE Leave("sliceSamplesFromBack", loc.c, FALSE,
                ReturnBuf([this EXCEPT !.samples =
                             Resize(this.samples, getSampleCount(this) - loc.c)],
                          loc.that))

\* the steps of a call that is running
Running ==
  \/ MonoWhile
  \/ MonoFor
  \/ MonoResize
  \/ DownWhile
  \/ DownShort
  \/ DownFor
  \/ DownResize
  \/ SliceWhile

LoopNext ==
  \/ SetChannels
  \/ SetFrameRate
  \/ AddToSampleCount
  \/ SetSample
  \/ Resume
  \/ MonoBegin
  \/ DownBegin
  \/ SliceBegin
  \/ MonoWhile
  \/ MonoFor
  \/ MonoResize
  \/ DownWhile
  \/ DownShort
  \/ DownFor
  \/ DownResize
  \/ SliceWhile

\* a call that has begun keeps running: its next step is taken
LoopSpec == Init /\ [][LoopNext]_vars /\ WF_vars(Running)

----------------------------------------------------------------------------
\* Properties

\* the step is a call of `op` that returned or threw
Returns(op) == pc' = "returned" /\ last'.op = op

InCall == pc \in {"mono_while", "mono_for", "mono_resize", "down_while", "down_short",
                  "down_for", "down_resize", "slice_while"}

\* C1: a call that ends in an error leaves samples, channels and frameRate as they
\* were before the call.
C1_ErrorLeavesReceiverUnchanged ==
  [][(pc' = "returned" /\ last'.err # NoErr) => this' = this]_vars

\* b holds whole frames only
WholeFrames(b) == b.channels > 0 => getSampleCount(b) % b.channels = 0

\* C2: whenever channels > 0 the sample count is a multiple of channels, in the
\* receiver and in a buffer sliceSamplesFromBack returned.
C2_WholeFrames ==
  /\ WholeFrames(this)
  /\ two.first = "sliceSamplesFromBack" => WholeFrames(two.that)

\* C3: every stored sample is finite.
C3_SamplesFinite == \A i \in 1..getSampleCount(this) : isfinite(this.samples[i])

\* the mean of s[from..to]: the sum of the block divided once by its length
RECURSIVE BlockSum(_, _, _)
BlockSum(s, from, to) ==
  IF from > to THEN Zero ELSE FAdd(s[from], BlockSum(s, from + 1, to))

BoxcarMeans(s, factor) ==
  [i \in 1..CeilDiv(Len(s), factor) |->
     LET from == (i - 1) * factor + 1
         to == Min(i * factor, Len(s))
     IN FDiv(BlockSum(s, from, to), to - from + 1)]

\* C4: downsample(factor, shortcut = false) with factor >= 2 on a mono buffer leaves
\* ceil(n / factor) samples, each the mean of its block of the input, and divides
\* frameRate by factor.
C4_DownsampleIsBlockMean ==
  [][(/\ Returns("downsample") /\ last'.err = NoErr
      /\ ~last'.shortcut /\ last'.n >= 2 /\ this.channels = 1)
     => /\ this'.samples = BoxcarMeans(this.samples, last'.n)
        /\ this'.frameRate = this.frameRate \div last'.n
        /\ this'.channels = 1]_vars

\* C5: sliceSamplesFromBack(n) with n <= sampleCount succeeds and returns the last n
\* samples with the receiver's channels and frameRate; appending the returned buffer
\* succeeds and gives the receiver back as it was before the slice.
C5_SliceThenAppendRestores ==
  [][/\ (Returns("sliceSamplesFromBack") /\ last'.n <= getSampleCount(this))
        => /\ last'.err = NoErr
           /\ two'.first = "sliceSamplesFromBack"
           /\ two'.that = Buffer(SubSeq(this.samples,
                                        getSampleCount(this) - last'.n + 1,
                                        getSampleCount(this)),
                                 this.channels, this.frameRate)
     /\ (two'.first = "sliceSamplesFromBack" /\ two'.done)
        => /\ two'.err = NoErr
           /\ this' = two'.orig]_vars

\* C6, with append: A.append(B), then A.discardFramesFromFront(frame count of B), leaves
\* A with the samples it had before the append (stated for A and B of whole frames,
\* where the frame count of B counts all of B).
C6_AppendThenDiscardRestores ==
  (/\ two.first = "append" /\ two.done
   /\ WholeFrames(two.orig) /\ WholeFrames(two.that))
    => two.err = NoErr /\ this.samples = two.orig.samples

\* the samples of b after its last whole frame
PartialFrame(b) ==
  SubSeq(b.samples, getFrameCount(b) * b.channels + 1, getSampleCount(b))

\* C6, with prepend: A.prepend(B), then A.discardFramesFromFront(frame count of B), succeeds
\* and removes the whole frames of B: A is left with the samples of B after its last
\* whole frame (none when B holds whole frames), then the samples A had before the
\* prepend; channels and frameRate are as before.
C6_PrependThenDiscardRestores ==
  (two.first = "prepend" /\ two.done)
    => /\ two.err = NoErr
       /\ this.samples = PartialFrame(two.that) \o two.orig.samples
       /\ this.channels = two.orig.channels
       /\ this.frameRate = two.orig.frameRate

\* B prepended and discarded again, A as it was
C6_Witness ==
  /\ two.first = "prepend" /\ two.done
  /\ getSampleCount(two.orig) > 0
  /\ getFrameCount(two.that) > 0
  /\ this.samples = two.orig.samples

\* C7, for every factor: downsample on a buffer with channels > 1 throws.
C7_DownsampleRejectsMultichannel ==
  [][(Returns("downsample") /\ this.channels > 1)
     => last'.err = "Apply to monophonic only"]_vars

\* C7, with factor 1 apart: downsample on a buffer with channels > 1 throws for every factor but 1
\* and returns without an error for factor 1; the receiver is unchanged either way.
C7_DownsampleRejectsMultichannelUnlessFactorOne ==
  [][(Returns("downsample") /\ this.channels > 1)
     => /\ last'.err = IF last'.n = 1 THEN NoErr ELSE "Apply to monophonic only"
        /\ this' = this]_vars

\* a downsample by a factor other than 1 rejected for its channels
C7_Witness ==
  /\ pc = "returned" /\ last.op = "downsample" /\ last.n # 1
  /\ this.channels > 1
  /\ last.err = "Apply to monophonic only"

\* C8: once channels is positive it is never 0 again, and once frameRate is positive
\* it is never 0 again.
C8_NeverUnconfiguredAgain ==
  [][/\ this.channels > 0 => this'.channels > 0
     /\ this.frameRate > 0 => this'.frameRate > 0]_vars

\* a downsample that would take the frame rate to 0 has been rejected
C8_Witness ==
  /\ pc = "returned" /\ last.op = "downsample"
  /\ last.err = "New frame rate must be > 0"
  /\ this.frameRate > 0 /\ this.channels > 0

\* C9: a call that has begun returns or throws after finitely many steps (a call that
\* faults is counted as over).
C9_CallsTerminate == InCall ~> pc \in {"returned", "crashed"}

\* C10: reduceToMono dereferences readAt and writeAt inside storage only.
C10_MonoStaysInStorage ==
  pc = "mono_for"
    => IF loc.c < this.channels
       THEN loc.readAt < getSampleCount(this)
       ELSE loc.writeAt < getSampleCount(this)

====
